---- MODULE Spec2Model ----
(***************************************************************************)
(* A model of Json::Node, Json::Value<T>, Json::Array<T> and Json::Object  *)
(* of JsonWriter.h: the builder calls, the shared_ptr heap they build, and *)
(* the rendering of a node into a std::ostream.                            *)
(*                                                                         *)
(* Text is a sequence of one-character strings.  A std::ostream is the     *)
(* record [loc, boolalpha, hex, buf]: the decimal point of its locale's    *)
(* numpunct facet, two of its format flags, and the characters written.    *)
(* A node is the record [kind, type, value]:                               *)
(*   Value<T>   kind "Value",  type T, value the T held                    *)
(*   Array<T>   kind "Array",  type T, value the std::vector<T>            *)
(*   Object     kind "Object", type "Object", value the unordered_map as   *)
(*              the sequence of its entries [first, second] in iteration   *)
(*              order (second is a shared_ptr: an address of the heap)     *)
(***************************************************************************)
EXTENDS Integers, Sequences, FiniteSets, TLC

\* heap   the nodes std::make_shared built (Node::create), by address
\* stack  the caller's Json::Object variables, root and obj
\* arr    the caller's Json::Array<T> variable, once constructed
\* given  the calls made so far, with the content of their arguments
\* nops   the number of builder calls made
\* pc     "build" while the caller builds, "render" once it writes to a stream
\* out    per stream written to: the node written (src), the stream before
\*        the write (fmt) and after it (os)
VARIABLES heap, stack, arr, given, nops, pc, out

vars == <<heap, stack, arr, given, nops, pc, out>>

\* ---------------------------------------------------------------- bounds
MaxNodes == 3
MaxOps == 3
MaxStrLen == 2

\* ------------------------------------------------------------------ text
Digit(d) == <<"0", "1", "2", "3", "4", "5", "6", "7", "8", "9", "a", "b", "c", "d", "e", "f">>[d + 1]

RECURSIVE NatText(_, _)
NatText(n, base) ==
    IF n < base THEN <<Digit(n)>>
    ELSE NatText(n \div base, base) \o <<Digit(n % base)>>

RECURSIVE PadLeft(_, _)
PadLeft(t, n) == IF Len(t) >= n THEN t ELSE PadLeft(<<"0">> \o t, n)

\* num_put for a 32-bit int: signed decimal, or the hexadecimal digits of the
\* value as unsigned (two's complement) when basefield is hex.
IntText(os, v) ==
    IF os.hex
    THEN IF v >= 0 THEN NatText(v, 16)
         ELSE LET u == (-v) - 1
              IN NatText(65535 - (u \div 65536), 16)
                 \o PadLeft(NatText(65535 - (u % 65536), 16), 4)
    ELSE IF v < 0 THEN <<"-">> \o NatText(-v, 10) ELSE NatText(v, 10)

\* num_put for bool: the numpunct truename/falsename under boolalpha, else
\* the integer 1 or 0.
BoolText(os, v) ==
    IF os.boolalpha
    THEN IF v THEN <<"t", "r", "u", "e">> ELSE <<"f", "a", "l", "s", "e">>
    ELSE IF v THEN <<"1">> ELSE <<"0">>

\* num_put for a double [whole, frac] (%g, for a value of at most six
\* significant digits): the digits of the whole part and, when there is a
\* fraction, the locale's decimal point and the digits of the fraction.
DoubleText(os, v) ==
    NatText(v.whole, 10) \o (IF v.frac = <<>> THEN <<>> ELSE <<os.loc>> \o v.frac)

Put(os, t) == [os EXCEPT !.buf = @ \o t]

\* os.imbue(std::locale(os.getloc(), new DecimalPointFacet()))
imbue(os) == [os EXCEPT !.loc = "."]

\* An escaping that leaves '/' as it is
RECURSIVE escaped_noSlash(_)
escaped_noSlash(value) ==
    IF value = <<>> THEN <<>>
    ELSE LET ch == Head(value)
         IN (IF ch \in {"\"", "\\"} THEN <<"\\", ch>> ELSE <<ch>>)
            \o escaped_noSlash(Tail(value))

RECURSIVE escaped(_)
escaped(value) ==
    IF value = <<>> THEN <<>>
    ELSE LET ch == Head(value)
         IN (IF ch \in {"\"", "\\", "/"} THEN <<"\\", ch>> ELSE <<ch>>)
            \o escaped(Tail(value))

\* writeImpl(std::ostream&, const std::string&)
writeImplString(os, value) == Put(os, <<"\"">> \o escaped(value) \o <<"\"">>)

\* writeImpl<T>(std::ostream&, const T&): os << value, for the T that are not
\* nodes.  A const char* is written by operator<<(ostream&, const char*).
writeImplT(os, type, value) ==
    CASE type = "int" -> Put(os, IntText(os, value))
      [] type = "bool" -> Put(os, BoolText(os, value))
      [] type = "double" -> Put(os, DoubleText(os, value))
      [] type = "cstr" -> Put(os, value)

\* A loop that writes the ',' after every element, the last one too
NotLast_always(i, n) == TRUE

\* std::next(it) != children.end(), it at position i of n
NotLast(i, n) == i + 1 <= n

RECURSIVE operatorShl(_, _, _)
RECURSIVE write(_, _, _)
RECURSIVE writeImpl(_, _, _, _)
RECURSIVE ArrayLoop(_, _, _, _, _)
RECURSIVE ObjectLoop(_, _, _, _)

\* An operator<< that leaves the stream's locale as it finds it
operatorShl_noImbue(h, os, node) == write(h, os, node)

\* operator<<(std::ostream&, const Node&)
operatorShl(h, os, node) == write(h, imbue(os), node)

\* overload resolution of writeImpl(os, value) for a value of type T
writeImpl(h, os, type, value) ==
    CASE type = "string" -> writeImplString(os, value)
      [] type = "Object" -> operatorShl(h, os, value)
      [] OTHER -> writeImplT(os, type, value)

\* the loop of Array<T>::write from position i
ArrayLoop(h, os, type, children, i) ==
    IF i > Len(children) THEN os
    ELSE LET os1 == writeImpl(h, os, type, children[i])
             os2 == IF NotLast(i, Len(children)) THEN Put(os1, <<",">>) ELSE os1
         IN ArrayLoop(h, os2, type, children, i + 1)

\* the loop of Object::write from position i
ObjectLoop(h, os, children, i) ==
    IF i > Len(children) THEN os
    ELSE LET it == children[i]
             os1 == Put(os, <<"\"">> \o it.first \o <<"\"", ":">>)
             os2 == operatorShl(h, os1, h[it.second])
             os3 == IF NotLast(i, Len(children)) THEN Put(os2, <<",">>) ELSE os2
         IN ObjectLoop(h, os3, children, i + 1)

\* the virtual Node::write of Value<T>, Array<T> and Object
write(h, os, node) ==
    CASE node.kind = "Value" -> writeImpl(h, os, node.type, node.value)
      [] node.kind = "Array" ->
            Put(ArrayLoop(h, Put(os, <<"[">>), node.type, node.value, 1), <<"]">>)
      [] node.kind = "Object" ->
            Put(ObjectLoop(h, Put(os, <<"{">>), node.value, 1), <<"}">>)

\* ------------------------------------------------------------------ heap
Ids == 1..MaxNodes
ObjVars == {"root", "obj"}
Sinks == {1, 2}

Free == [kind |-> "free", type |-> "", value |-> <<>>]
NoArr == [kind |-> "none", type |-> "", value |-> <<>>]
\* Json::Object(): an empty unordered_map
EmptyObject == [kind |-> "Object", type |-> "Object", value |-> <<>>]

Range(s) == {s[i] : i \in DOMAIN s}
Perms(s) == {p \in [DOMAIN s -> Range(s)] : \A i, j \in DOMAIN s : p[i] = p[j] => i = j}

\* the shared_ptr an Object (by value) holds
Pointers(object) == {object.value[i].second : i \in DOMAIN object.value}

\* the shared_ptr a node holds: an Object's entries, an Array<Object>'s elements' entries
Owned(node) ==
    CASE node.kind = "Object" -> Pointers(node)
      [] node.kind = "Array" /\ node.type = "Object" ->
            UNION {Pointers(node.value[i]) : i \in DOMAIN node.value}
      [] OTHER -> {}

RECURSIVE Reach(_, _)
Reach(h, S) ==
    LET T == S \cup UNION {Owned(h[i]) : i \in S}
    IN IF T = S THEN S ELSE Reach(h, T)

\* ~shared_ptr: a node no owner holds any more is destroyed, and with it the
\* pointers it held.
Release(h, st, a) ==
    LET live == Reach(h, UNION {Owned(st[o]) : o \in ObjVars} \cup Owned(a))
    IN [i \in Ids |-> IF i \in live THEN h[i] ELSE Free]

HasFree(h) == \E i \in Ids : h[i].kind = "free"
\* std::make_shared: a fresh address
Alloc(h) == CHOOSE i \in Ids : h[i].kind = "free" /\ \A j \in Ids : j < i => h[j].kind # "free"

\* Object's implicit copy constructor: the unordered_map is copied, pointers
\* and all; the copy's iteration order is unspecified.
CopyObject(object) == {[object EXCEPT !.value = p] : p \in Perms(object.value)}

\* std::vector<T>'s copy, element by element
CopyVector(type, children) ==
    IF type = "Object"
    THEN {c \in [DOMAIN children -> UNION {CopyObject(children[i]) : i \in DOMAIN children}] :
            \A i \in DOMAIN children : c[i] \in CopyObject(children[i])}
    ELSE {children}

\* An argument of a builder call is [type, elem, value]; an Object argument
\* names the caller's variable it refers to.
Deref(st, type, value) ==
    IF type = "Object" THEN st[value] ELSE value

\* Node::create, by overload: the nodes make_shared may build
create(st, v) ==
    CASE v.type = "Object" -> CopyObject(st[v.value])
      [] v.type = "cstr" -> {[kind |-> "Value", type |-> "string", value |-> v.value]}
      [] v.type \in {"ilist", "vector"} ->
            {[kind |-> "Array", type |-> v.elem, value |-> c] :
                c \in CopyVector(v.elem, [i \in DOMAIN v.value |-> Deref(st, v.elem, v.value[i])])}
      [] OTHER -> {[kind |-> "Value", type |-> v.type, value |-> v.value]}

\* A map whose insert keeps the entry a key already has (unordered_map::insert)
MapAssign_keepsFirst(children, name, ptr) ==
    IF \E i \in DOMAIN children : children[i].first = name
    THEN {children}
    ELSE Perms(Append(children, [first |-> name, second |-> ptr]))

\* children[name] = ptr on the unordered_map: the entry under name is
\* assigned, or a new entry is added, at an unspecified place of the
\* iteration order.
MapAssign(children, name, ptr) ==
    IF \E i \in DOMAIN children : children[i].first = name
    THEN {[i \in DOMAIN children |->
             IF children[i].first = name THEN [first |-> name, second |-> ptr]
             ELSE children[i]]}
    ELSE Perms(Append(children, [first |-> name, second |-> ptr]))

\* An operator() that assigns through the pointer a key already has,
\* *children[name] = node, instead of replacing the pointer
ObjectCall_throughPointer(h, children, name, node) ==
    IF \E i \in DOMAIN children : children[i].first = name
    THEN LET i == CHOOSE i \in DOMAIN children : children[i].first = name
         IN {[heap |-> [h EXCEPT ![children[i].second] = node], children |-> children]}
    ELSE LET ptr == Alloc(h)
         IN {[heap |-> [h EXCEPT ![ptr] = node], children |-> c] :
                c \in MapAssign(children, name, ptr)}

\* The same, only where the old and the new node are a Value<T> of one T
ObjectCall_reusesValue(h, children, name, node) ==
    IF \E i \in DOMAIN children :
          /\ children[i].first = name
          /\ h[children[i].second].kind = "Value"
          /\ node.kind = "Value"
          /\ h[children[i].second].type = node.type
    THEN LET i == CHOOSE i \in DOMAIN children : children[i].first = name
         IN {[heap |-> [h EXCEPT ![children[i].second] = node], children |-> children]}
    ELSE LET ptr == Alloc(h)
         IN {[heap |-> [h EXCEPT ![ptr] = node], children |-> c] :
                c \in MapAssign(children, name, ptr)}

\* Object::operator()(name, value) on the map `children`, given the node
\* create(value) built: the (heap, map) pairs that may result
ObjectCall(h, children, name, node) ==
    LET ptr == Alloc(h)
    IN {[heap |-> [h EXCEPT ![ptr] = node], children |-> c] :
            c \in MapAssign(children, name, ptr)}
\* ----------------------------------------------------- what the caller gave
\* given[o] is the sequence of the calls made on the caller's Object o, each
\* [name, value] with the content of the argument at the call; given["arr"]
\* is the sequence of the elements the caller's Array was given.
\* The content of a node, without its addresses: an Object as the function
\* from its keys to the content stored under them.
RECURSIVE Abs(_, _)
Abs(h, node) ==
    CASE node.kind = "Object" ->
            [kind |-> "Object", type |-> "Object",
             value |-> [k \in {node.value[i].first : i \in DOMAIN node.value} |->
                          LET i == CHOOSE i \in DOMAIN node.value : node.value[i].first = k
                          IN Abs(h, h[node.value[i].second])]]
      [] node.kind = "Array" /\ node.type = "Object" ->
            [node EXCEPT !.value = [i \in DOMAIN node.value |-> Abs(h, node.value[i])]]
      [] OTHER -> node

\* The content of an argument of a builder call, at the call
AbsArg(h, st, v) ==
    CASE v.type = "Object" -> Abs(h, st[v.value])
      [] v.type = "cstr" -> [kind |-> "Value", type |-> "string", value |-> v.value]
      [] v.type \in {"ilist", "vector"} ->
            [kind |-> "Array", type |-> v.elem,
             value |-> [i \in DOMAIN v.value |->
                          IF v.elem = "Object" THEN Abs(h, st[v.value[i]]) ELSE v.value[i]]]
      [] OTHER -> [kind |-> "Value", type |-> v.type, value |-> v.value]

\* ------------------------------------------------------------- the calls
DefaultFmt == [loc |-> ".", boolalpha |-> FALSE, hex |-> FALSE, buf |-> <<>>]
Formats == [loc : {".", ","}, boolalpha : BOOLEAN, hex : BOOLEAN, buf : {<<>>}]

Init ==
    /\ heap = [i \in Ids |-> Free]
    /\ stack = [o \in ObjVars |-> EmptyObject]
    /\ arr = NoArr
    /\ given = [o \in ObjVars \cup {"arr"} |-> <<>>]
    /\ nops = 0
    /\ pc = "build"
    /\ out = [s \in Sinks |-> [src |-> "none", fmt |-> DefaultFmt, os |-> DefaultFmt]]

\* o(name, v): Object::operator()(const std::string&, const T&) and its
\* initializer_list overload.  The argument is evaluated before the
\* assignment to children[name].
ObjectInsert(o, name, v) ==
    /\ pc = "build"
    /\ nops < MaxOps
    /\ HasFree(heap)
    /\ \E node \in create(stack, v) :
         \E r \in ObjectCall(heap, stack[o].value, name, node) :
            LET st == [stack EXCEPT ![o].value = r.children]
            IN /\ stack' = st
               /\ heap' = Release(r.heap, st, arr)
    /\ given' = [given EXCEPT ![o] = Append(@, [name |-> name, value |-> AbsArg(heap, stack, v)])]
    /\ nops' = nops + 1
    /\ UNCHANGED <<arr, pc, out>>

\* An append that puts the value first
PushBack_front(children, val) == <<val>> \o children

\* children.push_back(std::move(val))
PushBack(children, val) == Append(children, val)

\* Json::Array<T> arr(children)
ArrayCtor(type, children) ==
    /\ pc = "build"
    /\ nops < MaxOps
    /\ arr.kind = "none"
    /\ \E c \in CopyVector(type, [i \in DOMAIN children |-> Deref(stack, type, children[i])]) :
         arr' = [kind |-> "Array", type |-> type, value |-> c]
    /\ given' = [given EXCEPT !["arr"] =
                    [i \in DOMAIN children |->
                        IF type = "Object" THEN Abs(heap, stack[children[i]]) ELSE children[i]]]
    /\ nops' = nops + 1
    /\ UNCHANGED <<heap, stack, pc, out>>

\* arr(val): Array<T>::operator()(T&&); an Object is passed as a temporary
\* copy, Json::Object(o), of a caller's variable.
ArrayAppend(type, val) ==
    /\ pc = "build"
    /\ nops < MaxOps
    /\ arr.kind = "Array"
    /\ arr.type = type
    /\ \E c \in CopyVector(type, <<Deref(stack, type, val)>>) :
         arr' = [arr EXCEPT !.value = PushBack(@, c[1])]
    /\ given' = [given EXCEPT !["arr"] =
                    Append(@, IF type = "Object" THEN Abs(heap, stack[val]) ELSE val)]
    /\ nops' = nops + 1
    /\ UNCHANGED <<heap, stack, pc, out>>

\* std::ostringstream os (set up as fmt); os << src;
\* The caller writes once it has built; a second stream is written the node
\* the first was.
Render(s, src, fmt) ==
    /\ out[s].src = "none"
    /\ s = 2 => out[1].src = src
    /\ src = "arr" => arr.kind = "Array"
    /\ pc' = "render"
    /\ out' = [out EXCEPT ![s] =
                  [src |-> src, fmt |-> fmt,
                   os |-> operatorShl(heap, fmt, IF src = "arr" THEN arr ELSE stack[src])]]
    /\ UNCHANGED <<heap, stack, arr, given, nops>>

\* ------------------------------------------------- the values of the calls
IntArg(n) == [type |-> "int", elem |-> "", value |-> n]
BoolArg(b) == [type |-> "bool", elem |-> "", value |-> b]
DoubleArg(w, f) == [type |-> "double", elem |-> "", value |-> [whole |-> w, frac |-> f]]
CStrArg(t) == [type |-> "cstr", elem |-> "", value |-> t]
StrArg(t) == [type |-> "string", elem |-> "", value |-> t]
ObjArg(o) == [type |-> "Object", elem |-> "", value |-> o]
IListArg(T, l) == [type |-> "ilist", elem |-> T, value |-> l]
VectorArg(T, l) == [type |-> "vector", elem |-> T, value |-> l]

Keys == {<<"a">>, <<"a", "\"">>}

\* The calls of the caller: ints into either Object, a copy of either Object
\* and a std::vector<Object> into root, and the caller's Array<Object>, built
\* empty and appended to.
Next ==
    \/ \E o \in ObjVars, name \in Keys, n \in {1, 2} : ObjectInsert(o, name, IntArg(n))
    \/ \E name \in Keys, c \in ObjVars : ObjectInsert("root", name, ObjArg(c))
    \/ \E name \in Keys : ObjectInsert("root", name, VectorArg("Object", <<"obj">>))
    \/ ArrayCtor("Object", <<>>)
    \/ ArrayAppend("Object", "obj")
    \/ \E src \in ObjVars : Render(1, src, DefaultFmt)

Spec == Init /\ [][Next]_vars
\* ------------------------------------------------ strings, one at a time
Chars == {"a", "\"", "\\", "/"}
Strings == UNION {[1..k -> Chars] : k \in 0..MaxStrLen}

\* root("a", s) for one string s, as a literal and as a std::string, and the
\* writing of root to a stream in any format state
InsertOnce(v) == nops = 0 /\ ObjectInsert("root", <<"a">>, v)

NextStr ==
    \/ \E t \in Strings : InsertOnce(CStrArg(t))
    \/ \E t \in Strings : InsertOnce(StrArg(t))
    \/ \E fmt \in Formats : Render(1, "root", fmt)

SpecStr == Init /\ [][NextStr]_vars

\* ------------------------------------------------------- numbers, streams
Doubles == {[whole |-> 20, frac |-> <<"5">>], [whole |-> 3, frac |-> <<>>]}
OtherLoc(fmt) == [fmt EXCEPT !.loc = IF @ = "." THEN "," ELSE "."]

\* bool, int and double values, alone, in brace lists and in an Array held
\* by the caller, obj copied into root, and two streams written to: the
\* first in any format state, the second in the same state but for the
\* locale's decimal point.
NextNum ==
    \/ \E b \in BOOLEAN : ObjectInsert("obj", <<"a">>, BoolArg(b))
    \/ \E n \in {258, -1} : ObjectInsert("obj", <<"a">>, IntArg(n))
    \/ \E d \in Doubles : ObjectInsert("obj", <<"a">>, DoubleArg(d.whole, d.frac))
    \/ ObjectInsert("obj", <<"a">>, IListArg("bool", <<TRUE, FALSE>>))
    \/ ObjectInsert("obj", <<"a">>, IListArg("int", <<258, -1>>))
    \/ ObjectInsert("obj", <<"a">>, IListArg("double", <<[whole |-> 20, frac |-> <<"5">>], [whole |-> 0, frac |-> <<"2", "5">>]>>))
    \/ ObjectInsert("root", <<"a">>, ObjArg("obj"))
    \/ ArrayCtor("double", <<[whole |-> 20, frac |-> <<"5">>]>>)
    \/ \E src \in ObjVars \cup {"arr"}, fmt \in Formats : Render(1, src, fmt)
    \/ \E src \in ObjVars \cup {"arr"} : Render(2, src, OtherLoc(out[1].fmt))

SpecNum == Init /\ [][NextNum]_vars

\* ------------------------------------------------------------------ arrays
\* The caller's Array<int>, Array<std::string> or Array<Object>, constructed
\* and appended to; ints into obj; a brace list of string literals and a
\* std::vector<std::string> into root.
NextArr ==
    \/ \E l \in {<<>>, <<1>>, <<1, 2>>} : ArrayCtor("int", l)
    \/ \E n \in {1, 2, 3} : ArrayAppend("int", n)
    \/ \E l \in {<<>>, <<<<"a">>>>} : ArrayCtor("string", l)
    \/ \E t \in {<<"a">>, <<"\"", "/">>} : ArrayAppend("string", t)
    \/ \E l \in {<<>>, <<"obj">>} : ArrayCtor("Object", l)
    \/ ArrayAppend("Object", "obj")
    \/ \E name \in Keys, n \in {1, 2} : ObjectInsert("obj", name, IntArg(n))
    \/ \E l \in {<<<<"a">>>>, <<<<"a">>, <<"\"", "/">>>>} : ObjectInsert("root", <<"a">>, IListArg("cstr", l))
    \/ \E l \in {<<<<"a">>>>, <<<<"a">>, <<"\"", "/">>>>} : ObjectInsert("root", <<"a">>, VectorArg("string", l))
    \/ \E src \in {"root", "arr"} : Render(1, src, DefaultFmt)

SpecArr == Init /\ [][NextArr]_vars

\* ================================================================ claims
\* what `os << node` writes into a fresh std::ostringstream
RenderText(h, node) == operatorShl(h, DefaultFmt, node).buf

RECURSIVE JoinWith(_, _)
JoinWith(items, sep) ==
    IF items = <<>> THEN <<>>
    ELSE IF Len(items) = 1 THEN items[1]
    ELSE items[1] \o <<sep>> \o JoinWith(Tail(items), sep)

\* the last call on o under name
LastGiven(o, name) ==
    LET g == given[o]
        i == CHOOSE i \in DOMAIN g : g[i].name = name /\ \A j \in DOMAIN g : g[j].name = name => j <= i
    IN g[i].value

\* C1: after any sequence of o(name, value) calls the Object o holds exactly
\* one entry per key ever given, and the entry holds the content given by the
\* last call under that key.
C1_LastWriteWins ==
    \A o \in ObjVars :
        LET m == stack[o].value
        IN /\ \A i, j \in DOMAIN m : m[i].first = m[j].first => i = j
           /\ {m[i].first : i \in DOMAIN m} = {given[o][i].name : i \in DOMAIN given[o]}
           /\ \A i \in DOMAIN m : Abs(heap, heap[m[i].second]) = LastGiven(o, m[i].first)

\* two calls on root under one key, with different values: one entry, the second value
C1_Witness ==
    /\ Len(given["root"]) = 2
    /\ given["root"][1].name = given["root"][2].name
    /\ given["root"][1].value.kind = "Value"
    /\ given["root"][2].value.kind = "Value"
    /\ given["root"][1].value.value = 1
    /\ given["root"][2].value.value = 2
    /\ Len(stack["root"].value) = 1
    /\ heap[stack["root"].value[1].second].value = 2

\* C6: an Object of n entries renders as '{', its n entries "key":value in
\* the map's iteration order, each key once, ',' between consecutive entries
\* and nowhere else, then '}'; an empty Object renders as '{}'.
C6_ObjectRender ==
    \A s \in Sinks :
        out[s].src \in ObjVars =>
            LET m == stack[out[s].src].value
                item(i) == <<"\"">> \o m[i].first \o <<"\"", ":">> \o RenderText(heap, heap[m[i].second])
            IN /\ out[s].os.buf = <<"{">> \o JoinWith([i \in DOMAIN m |-> item(i)], ",") \o <<"}">>
               /\ m = <<>> => out[s].os.buf = <<"{", "}">>
               /\ \A i, j \in DOMAIN m : m[i].first = m[j].first => i = j

C6_Witness ==
    /\ out[1].src = "root"
    /\ Len(stack["root"].value) = 2
    /\ \E i \in 1..Len(out[1].os.buf) : out[1].os.buf[i] = ","

\* C7: a call on one of the caller's Objects leaves the rendering of every
\* other Object and of the Array unchanged, also when one holds a copy of
\* the other.
C7_ValueSemantics ==
    [][/\ \A o \in ObjVars :
            stack'[o] = stack[o] => RenderText(heap', stack'[o]) = RenderText(heap, stack[o])
       /\ (arr' = arr /\ arr.kind = "Array") => RenderText(heap', arr') = RenderText(heap, arr)]_vars

\* obj was given "a" = 1, root was given obj, obj was given "a" = 2, and
\* root, rendered, still shows 1
C7_Witness ==
    /\ out[1].src = "root"
    /\ Len(given["root"]) = 1
    /\ given["root"][1].value.kind = "Object"
    /\ Len(given["obj"]) = 2
    /\ given["obj"][1].name = <<"a">>
    /\ given["obj"][2].name = <<"a">>
    /\ given["obj"][1].value.kind = "Value"
    /\ given["obj"][2].value.kind = "Value"
    /\ given["obj"][1].value.value = 1
    /\ given["obj"][2].value.value = 2
    /\ given["root"][1].name = <<"a">>
    /\ out[1].os.buf = <<"{", "\"", "a", "\"", ":", "{", "\"", "a", "\"", ":", "1", "}", "}">>
    /\ RenderText(heap, stack["obj"]) = <<"{", "\"", "a", "\"", ":", "2", "}">>

\* the containers that hold a pointer to the node at address n
Holders(n) ==
    Cardinality({o \in ObjVars : n \in Pointers(stack[o])})
    + Cardinality({i \in DOMAIN arr.value : arr.type = "Object" /\ n \in Pointers(arr.value[i])})
    + Cardinality({j \in Ids : heap[j].kind = "Object" /\ n \in Pointers(heap[j])})
    + Cardinality(UNION {{<<j, i>> : i \in {i \in DOMAIN heap[j].value : n \in Pointers(heap[j].value[i])}} :
                            j \in {j \in Ids : heap[j].kind = "Array" /\ heap[j].type = "Object"}})

Acyclic == \A n \in Ids : n \notin Reach(heap, Owned(heap[n]))

\* the keys under which some map holds the node at address n
KeysOf(n) ==
    LET maps == {stack[o].value : o \in ObjVars}
                \cup {heap[j].value : j \in {j \in Ids : heap[j].kind = "Object"}}
                \cup (IF arr.type = "Object" THEN {arr.value[i].value : i \in DOMAIN arr.value} ELSE {})
                \cup UNION {{heap[j].value[i].value : i \in DOMAIN heap[j].value} :
                              j \in {j \in Ids : heap[j].kind = "Array" /\ heap[j].type = "Object"}}
    IN UNION {{m[i].first : i \in {i \in DOMAIN m : m[i].second = n}} : m \in maps}

RECURSIVE ScanLiteral(_, _, _)
ScanLiteral(t, p, acc) ==
    IF p > Len(t) THEN [ok |-> FALSE, decoded |-> acc, end |-> p]
    ELSE IF t[p] = "\"" THEN [ok |-> TRUE, decoded |-> acc, end |-> p]
    ELSE IF t[p] = "\\"
         THEN IF p + 1 > Len(t) THEN [ok |-> FALSE, decoded |-> acc, end |-> p]
              ELSE ScanLiteral(t, p + 2, Append(acc, t[p + 1]))
    ELSE ScanLiteral(t, p + 1, Append(acc, t[p]))

\* From position p, t holds the entries of m from the i-th on, each key a
\* string literal that decodes to the key, then ':' and the value, then '}'.
RECURSIVE KeysDecode(_, _, _, _)
KeysDecode(t, p, m, i) ==
    IF i > Len(m) THEN p = Len(t) /\ t[p] = "}"
    ELSE /\ p <= Len(t)
         /\ t[p] = "\""
         /\ LET r == ScanLiteral(t, p + 1, <<>>)
                q == r.end + 2 + Len(RenderText(heap, heap[m[i].second]))
            IN /\ r.ok
               /\ r.decoded = m[i].first
               /\ r.end + 1 <= Len(t)
               /\ t[r.end + 1] = ":"
               /\ q <= Len(t)
               /\ IF i < Len(m) THEN t[q] = "," /\ KeysDecode(t, q + 1, m, i + 1)
                  ELSE KeysDecode(t, q, m, i + 1)

\* C10: in a rendered Object every key is a well-formed string literal: read
\* as one (a backslash escapes the next character, a quote ends it), the text
\* after the key's opening quote decodes to the key and is followed by ':'.
C10_KeysAreLiterals ==
    \A s \in Sinks :
        out[s].src \in ObjVars =>
            /\ out[s].os.buf[1] = "{"
            /\ KeysDecode(out[s].os.buf, 2, stack[out[s].src].value, 1)
\* the text of a rendered Object that holds one entry, under "a", without
\* the leading {"a": and the closing }
ValueOfA(t) == SubSeq(t, 6, Len(t) - 1)
HasOneA(t) == Len(t) >= 6 /\ SubSeq(t, 1, 5) = <<"{", "\"", "a", "\"", ":">> /\ t[Len(t)] = "}"

Special(c) == c \in {"\"", "\\", "/"}

\* C2: a string value v renders as a quote, the characters of v in order,
\* each ", \ or / preceded by exactly one added backslash and every other
\* character as it is, and a quote; read back as a literal it gives v.
C2_StringLiteral ==
    \A s \in Sinks :
        (/\ out[s].src = "root"
         /\ Len(given["root"]) = 1
         /\ given["root"][1].value.kind = "Value"
         /\ given["root"][1].value.type = "string") =>
            LET v == given["root"][1].value.value
                t == out[s].os.buf
                lit == ValueOfA(t)
                body == SubSeq(lit, 2, Len(lit) - 1)
                pos(i) == i + Cardinality({j \in 1..i : Special(v[j])})
                r == ScanLiteral(lit, 2, <<>>)
            IN /\ HasOneA(t)
               /\ Len(lit) >= 2
               /\ lit[1] = "\""
               /\ lit[Len(lit)] = "\""
               /\ Len(body) = pos(Len(v))
               /\ \A i \in 1..Len(v) :
                     /\ body[pos(i)] = v[i]
                     /\ Special(v[i]) => body[pos(i) - 1] = "\\"
               /\ r.ok
               /\ r.end = Len(lit)
               /\ r.decoded = v

C2_Witness ==
    /\ out[1].src = "root"
    /\ Len(given["root"]) = 1
    /\ given["root"][1].value.value = <<"/", "\"">>
    /\ out[1].os.buf = <<"{", "\"", "a", "\"", ":", "\"", "\\", "/", "\\", "\"", "\"", "}">>

DecimalText(n) == IF n < 0 THEN <<"-">> \o NatText(-n, 10) ELSE NatText(n, 10)
LiteralText(type, v) ==
    IF type = "bool" THEN (IF v THEN <<"t", "r", "u", "e">> ELSE <<"f", "a", "l", "s", "e">>)
    ELSE DecimalText(v)

\* C3: a bool held by an Object or an Array renders as true or false, an int
\* as its decimal text, unquoted, whatever the format state of the stream.
C3_BoolIntLiterals ==
    \A s \in Sinks :
        (out[s].src = "obj" /\ Len(stack["obj"].value) = 1) =>
            LET node == heap[stack["obj"].value[1].second]
                t == out[s].os.buf
            IN node.type \in {"bool", "int"} =>
                  /\ HasOneA(t)
                  /\ node.kind = "Value" => ValueOfA(t) = LiteralText(node.type, node.value)
                  /\ node.kind = "Array" =>
                        ValueOfA(t) = <<"[">>
                            \o JoinWith([i \in DOMAIN node.value |-> LiteralText(node.type, node.value[i])], ",")
                            \o <<"]">>

\* C4: the same tree written to two streams that differ only in the decimal
\* point of their locale gives the same text, and a double is written with
\* '.' between its whole part and its fraction whatever the stream's locale.
C4_LocaleIndependent ==
    /\ (/\ out[1].src # "none"
        /\ out[2].src = out[1].src
        /\ out[1].fmt.boolalpha = out[2].fmt.boolalpha
        /\ out[1].fmt.hex = out[2].fmt.hex) => out[1].os.buf = out[2].os.buf
    /\ \A s \in Sinks :
          (out[s].src = "obj" /\ Len(stack["obj"].value) = 1) =>
             LET node == heap[stack["obj"].value[1].second]
             IN (node.kind = "Value" /\ node.type = "double") =>
                   /\ HasOneA(out[s].os.buf)
                   /\ ValueOfA(out[s].os.buf) =
                         DecimalText(node.value.whole)
                         \o (IF node.value.frac = <<>> THEN <<>> ELSE <<".">> \o node.value.frac)

\* root holds a copy of obj, which holds the brace list {20.5, 0.25}; root is
\* written to a stream whose locale has ',' and to one whose locale has '.'
C4_Witness ==
    /\ out[1].src = "root"
    /\ out[2].src = "root"
    /\ out[1].fmt = [DefaultFmt EXCEPT !.loc = ","]
    /\ out[2].fmt = DefaultFmt
    /\ out[1].os.buf = <<"{", "\"", "a", "\"", ":", "{", "\"", "a", "\"", ":", "[",
                         "2", "0", ".", "5", ",", "0", ".", "2", "5", "]", "}", "}">>

\* the rendering of the i-th element of the caller's Array
ElementText(i) ==
    IF arr.type = "Object" THEN RenderText(heap, arr.value[i])
    ELSE RenderText(heap, [kind |-> "Value", type |-> arr.type, value |-> arr.value[i]])

\* C5: an Array constructed from e1..en and appended v1..vk holds these in
\* that order and renders as '[', their renderings with ',' between
\* consecutive ones and nowhere else, and ']'; none renders as '[]', and
\* 1, 2, 3 as '[1,2,3]'.
C5_ArrayRender ==
    /\ arr.kind = "Array" =>
          /\ Len(arr.value) = Len(given["arr"])
          /\ \A i \in DOMAIN arr.value :
                IF arr.type = "Object" THEN Abs(heap, arr.value[i]) = given["arr"][i]
                ELSE arr.value[i] = given["arr"][i]
    /\ \A s \in Sinks :
          out[s].src = "arr" =>
             /\ out[s].os.buf = <<"[">> \o JoinWith([i \in DOMAIN arr.value |-> ElementText(i)], ",") \o <<"]">>
             /\ arr.value = <<>> => out[s].os.buf = <<"[", "]">>
             /\ (arr.type = "int" /\ given["arr"] = <<1, 2, 3>>) =>
                   out[s].os.buf = <<"[", "1", ",", "2", ",", "3", "]">>

\* Array<int> built from {1, 2}, appended 3, and rendered
C5_Witness ==
    /\ out[1].src = "arr"
    /\ arr.type = "int"
    /\ given["arr"] = <<1, 2, 3>>
    /\ nops = 2
    /\ out[1].os.buf = <<"[", "1", ",", "2", ",", "3", "]">>

\* C9: the elements of an array of strings that an Object holds, given as a
\* brace list of string literals or as a std::vector<std::string>, are each
\* rendered by the string rule, and the elements of the caller's array of
\* Objects by the Object rule.
C9_ElementsByOwnRule ==
    \A s \in Sinks :
        /\ (out[s].src = "root" /\ Len(stack["root"].value) = 1) =>
              LET node == heap[stack["root"].value[1].second]
                  t == out[s].os.buf
              IN (node.kind = "Array" /\ node.type \in {"cstr", "string"}) =>
                    /\ HasOneA(t)
                    /\ ValueOfA(t) = <<"[">>
                          \o JoinWith([i \in DOMAIN node.value |-> writeImplString(DefaultFmt, node.value[i]).buf], ",")
                          \o <<"]">>
        /\ (out[s].src = "arr" /\ arr.type = "Object") =>
              out[s].os.buf = <<"[">>
                  \o JoinWith([i \in DOMAIN arr.value |-> write(heap, DefaultFmt, arr.value[i]).buf], ",")
                  \o <<"]">>
====
